---- MODULE Spec2Model ----
(***************************************************************************)
(* excel2mssql/worker.py: the chunked bulk-load pipeline of CsvToMssql and *)
(* ExcelToMssql.  A job is either a direct call of insert_data (as the     *)
(* tests make it, after create_engine) or the whole orchestration          *)
(* csv_to_mssql / excel_to_mssql.  The destination table, the progress bar *)
(* and the engine handle are the state the job acts on.                    *)
(***************************************************************************)
EXTENDS Integers, Sequences, FiniteSets, TLC

\* ---------------------------------------------------------------- bounds
\* Longest of the small input tables.
MaxRows == 3
\* Row count of the one large input table (over the default-sizing threshold).
BigRows == 10001
\* Most rows a pre-existing destination table holds.
MaxPrior == 1

\* ------------------------------------------------------ program constants
\* worker.py:115 / 209: "if len(df) > 10000"
SizingThreshold == 10000
\* worker.py:115 / 209: "int(len(df) / 10)"
SizingDivisor == 10

VARIABLES
    job,        \* the call's arguments and environment, fixed for the job
    pc,         \* position of the job in the code
    df,         \* the DataFrame: [cols, rows]
    engine,     \* the engine handle: "none" | "open"
    chunksize,  \* insert_data's chunksize argument (Unset until computed)
    chunks,     \* the batches chunker's generator yields, in order
    idx,        \* batches written so far (loop iterations completed)
    pbar,       \* tqdm's bar: [n, total]
    table,      \* destination table: [exists, cols, rows]
    calls,      \* to_sql invocations so far
    result,     \* returned value: "none" (not returned) | "None" | "True"
    err         \* the exception raised in the job, or NoErr

vars == <<job, pc, df, engine, chunksize, chunks, idx, pbar, table, calls, result, err>>

\* ------------------------------------------------------------- helpers
Range(s) == {s[i] : i \in 1..Len(s)}

Min(a, b) == IF a < b THEN a ELSE b

IndexOf(s, x) == CHOOSE i \in 1..Len(s) : s[i] = x

SeqsUpTo(S, n) == UNION {[1..k -> S] : k \in 0..n}

Unset == "unset"
NoErr == "none"
\* SQL NULL in a stored row.
Null == 0 - 1

\* Exceptions, by the place that raises them.
ChunkSizeError == "ValueError: Chunk size must be greater than zero"
TableExistsError == "ValueError: Table already exists"
UsecolsError == "ValueError: Usecols do not match columns"
FileNotFound == "FileNotFoundError"
InvalidColumnError == "ProgrammingError: Invalid column name"
ConnectionLost == "OperationalError: connection lost"

\* ------------------------------------------------------------- inputs
\* The test data's header (test_excel2mssql.py: col1, col2).
FileCols == <<"col1", "col2">>

RowPool == {<<2, 5>>, <<6, 2>>}

SmallTables == SeqsUpTo(RowPool, MaxRows)

BigTable == [i \in 1..BigRows |-> <<i, i % 2>>]

\* usecols arguments: None, or a list of names (all columns, one column,
\* a list with an absent column).
NoCols == [given |-> FALSE, names |-> {}]

ColumnLists ==
    {[given |-> TRUE, names |-> n] :
        n \in {{"col1", "col2"}, {"col2"}, {"col1", "col3"}}}

NoTable == [exists |-> FALSE, cols |-> <<>>, rows |-> <<>>]

\* What the destination holds before the job.
PriorTables ==
    {NoTable}
    \cup {[exists |-> TRUE, cols |-> FileCols, rows |-> r] :
            r \in SeqsUpTo({<<7, 7>>}, MaxPrior)}
    \cup {[exists |-> TRUE, cols |-> <<"old">>, rows |-> <<>>]}

Actions == {"fail", "replace", "append"}

\* chunksize arguments of a direct insert_data call.
Sizes == (0 - MaxRows)..(MaxRows + 1)

NoFrame == [cols |-> <<>>, rows |-> <<>>]

\* ------------------------------------------------------------- chunker
\* range(start, stop, step), step # 0.
RECURSIVE PyRange(_, _, _)
PyRange(start, stop, step) ==
    IF step > 0
    THEN IF start < stop
         THEN <<start>> \o PyRange(start + step, stop, step)
         ELSE <<>>
    ELSE IF start > stop
         THEN <<start>> \o PyRange(start + step, stop, step)
         ELSE <<>>

\* seq[lo:hi] for 0 <= lo <= hi (zero-based, hi exclusive, clamped).
Slice(seq, lo, hi) == SubSeq(seq, lo + 1, Min(hi, Len(seq)))

\* Mutant: each slice one row short.
chunker_short_slice(seq, size) ==
    LET positions == PyRange(0, Len(seq), size)
    IN  [k \in 1..Len(positions) |->
            Slice(seq, positions[k], positions[k] + size - 1)]

\* chunker(seq, size) for size # 0: the generator's items, in order.
chunker(seq, size) ==
    LET positions == PyRange(0, Len(seq), size)
    IN  [k \in 1..Len(positions) |->
            Slice(seq, positions[k], positions[k] + size)]

\* chunker raises before building the generator.
chunker_raises(size) == size = 0

\* ------------------------------------------------------------- reader
\* pd.read_csv / pd.read_excel with usecols: the file's columns that were
\* asked for, in file order, and each row cut down to them.
usecols_ok(columns) == ~columns.given \/ columns.names \subseteq Range(FileCols)

Keep(columns) ==
    IF ~columns.given THEN FileCols
    ELSE SelectSeq(FileCols, LAMBDA c : c \in columns.names)

read_frame(rows, columns) ==
    LET keep == Keep(columns)
    IN  [cols |-> keep,
         rows |-> [i \in 1..Len(rows) |->
                     [j \in 1..Len(keep) |-> rows[i][IndexOf(FileCols, keep[j])]]]]

\* ------------------------------------------------------------- to_sql
\* A frame's rows laid out in the table's columns (NULL where the frame
\* has no such column).
Aligned(frame, tcols) ==
    [i \in 1..Len(frame.rows) |->
        [j \in 1..Len(tcols) |->
            IF tcols[j] \in Range(frame.cols)
            THEN frame.rows[i][IndexOf(frame.cols, tcols[j])]
            ELSE Null]]

\* DataFrame.to_sql(name, schema, if_exists, index=False, method="multi", con)
\* over a working connection: the error raised (or NoErr) and the table after.
to_sql(t, frame, if_exists) ==
    IF ~t.exists \/ if_exists = "replace"
    THEN [err |-> NoErr,
          table |-> [exists |-> TRUE, cols |-> frame.cols, rows |-> frame.rows]]
    ELSE IF if_exists = "fail"
    THEN [err |-> TableExistsError, table |-> t]
    ELSE IF Range(frame.cols) \subseteq Range(t.cols)
    THEN [err |-> NoErr,
          table |-> [t EXCEPT !.rows = @ \o Aligned(frame, t.cols)]]
    ELSE [err |-> InvalidColumnError, table |-> t]

\* ------------------------------------------------------------- Init
Jobs ==
    {[entry |-> "insert_data", kind |-> k, action |-> a, table0 |-> t,
      columns |-> NoCols, file_exists |-> TRUE, rows |-> r, size |-> s] :
        k \in {"csv", "excel"}, a \in Actions, t \in PriorTables,
        r \in SmallTables, s \in Sizes}
    \cup
    {[entry |-> "to_mssql", kind |-> k, action |-> a, table0 |-> t,
      columns |-> c, file_exists |-> f, rows |-> r, size |-> 0] :
        k \in {"csv", "excel"}, a \in Actions, t \in PriorTables,
        c \in ColumnLists \cup {NoCols}, f \in BOOLEAN,
        r \in SmallTables \cup {BigTable}}

Init ==
    /\ job \in {j \in Jobs :
                  /\ (j.kind = "csv" => j.columns.given \/ j.entry = "insert_data")
                  /\ (~j.file_exists => j.rows = <<>>)}
    /\ pc = IF job.entry = "insert_data" THEN "create_engine" ELSE "read"
    /\ df = IF job.entry = "insert_data"
            THEN [cols |-> FileCols, rows |-> job.rows]
            ELSE NoFrame
    /\ engine = "none"
    /\ chunksize = IF job.entry = "insert_data" THEN job.size ELSE Unset
    /\ chunks = <<>>
    /\ idx = 0
    /\ pbar = [n |-> 0, total |-> 0]
    /\ table = job.table0
    /\ calls = 0
    /\ result = "none"
    /\ err = NoErr

\* ------------------------------------------------------------- actions
Raise(e) ==
    /\ pc' = "error"
    /\ err' = e

\* Mutant: the engine is created before the file is read.
read_csv_after_engine ==
    /\ pc = "read"
    /\ job.kind = "csv"
    /\ engine' = "open"
    /\ IF ~job.file_exists
       THEN Raise(FileNotFound) /\ UNCHANGED df
       ELSE IF ~usecols_ok(job.columns)
       THEN Raise(UsecolsError) /\ UNCHANGED df
       ELSE /\ df' = read_frame(job.rows, job.columns)
            /\ pc' = "chunksize"
            /\ UNCHANGED err
    /\ UNCHANGED <<job, chunksize, chunks, idx, pbar, table, calls, result>>

\* csv_to_mssql line 113: df = self.read_csv(columns, sep, encoding)
read_csv ==
    /\ pc = "read"
    /\ job.kind = "csv"
    /\ IF ~job.file_exists
       THEN Raise(FileNotFound) /\ UNCHANGED df
       ELSE IF ~usecols_ok(job.columns)
       THEN Raise(UsecolsError) /\ UNCHANGED df
       ELSE /\ df' = read_frame(job.rows, job.columns)
            /\ pc' = "create_engine"
            /\ UNCHANGED err
    /\ UNCHANGED <<job, engine, chunksize, chunks, idx, pbar, table, calls, result>>

\* excel_to_mssql line 207: df = self.read_excel(sheet=sheet, columns=columns)
read_excel ==
    /\ pc = "read"
    /\ job.kind = "excel"
    /\ IF ~job.file_exists
       THEN Raise(FileNotFound) /\ UNCHANGED df
       ELSE IF ~usecols_ok(job.columns)
       THEN Raise(UsecolsError) /\ UNCHANGED df
       ELSE /\ df' = read_frame(job.rows, job.columns)
            /\ pc' = "create_engine"
            /\ UNCHANGED err
    /\ UNCHANGED <<job, engine, chunksize, chunks, idx, pbar, table, calls, result>>

\* create_engine(): the handle is made; nothing in worker.py disposes of it.
create_engine ==
    /\ pc = "create_engine"
    /\ engine' = "open"
    /\ pc' = IF job.entry = "insert_data" THEN "insert_data" ELSE "chunksize"
    /\ UNCHANGED <<job, df, chunksize, chunks, idx, pbar, table, calls, result, err>>

\* chunksize = int(len(df) / 10) if len(df) > 10000 else len(df)
default_chunksize(n) ==
    IF n > SizingThreshold THEN n \div SizingDivisor ELSE n

sizing ==
    /\ pc = "chunksize"
    /\ chunksize' = default_chunksize(Len(df.rows))
    /\ pc' = "insert_data"
    /\ UNCHANGED <<job, df, engine, chunks, idx, pbar, table, calls, result, err>>

\* insert_data up to the loop: tqdm(total=len(df)), then chunker(df, chunksize).
insert_data ==
    /\ pc = "insert_data"
    /\ pbar' = [n |-> 0, total |-> Len(df.rows)]
    /\ IF chunker_raises(chunksize)
       THEN Raise(ChunkSizeError) /\ UNCHANGED chunks
       ELSE /\ chunks' = chunker(df.rows, chunksize)
            /\ pc' = "loop"
            /\ UNCHANGED err
    /\ UNCHANGED <<job, df, engine, chunksize, idx, table, calls, result>>

\* Mutant: every batch is written with if_exists="append".
insert_batch_always_append ==
    /\ pc = "loop"
    /\ idx < Len(chunks)
    /\ LET cdf == [cols |-> df.cols, rows |-> chunks[idx + 1]]
           r == to_sql(table, cdf, "append")
       IN  /\ calls' = calls + 1
           /\ IF r.err = NoErr
              THEN /\ table' = r.table
                   /\ pbar' = [pbar EXCEPT !.n = @ + chunksize]
                   /\ idx' = idx + 1
                   /\ UNCHANGED <<pc, err>>
              ELSE /\ Raise(r.err)
                   /\ UNCHANGED <<table, pbar, idx>>
    /\ UNCHANGED <<job, df, engine, chunksize, chunks, result>>

\* Mutant: an error of to_sql is swallowed and the loop goes on.
insert_batch_swallow ==
    /\ pc = "loop"
    /\ idx < Len(chunks)
    /\ LET cdf == [cols |-> df.cols, rows |-> chunks[idx + 1]]
           r == to_sql(table, cdf, job.action)
       IN  /\ calls' = calls + 1
           /\ table' = r.table
           /\ pbar' = [pbar EXCEPT !.n = @ + chunksize]
           /\ idx' = idx + 1
           /\ err' = r.err
           /\ UNCHANGED pc
    /\ UNCHANGED <<job, df, engine, chunksize, chunks, result>>

\* One loop iteration: cdf.to_sql(..., if_exists=action, ...) and then
\* pbar.update(chunksize); an exception of to_sql leaves the loop.
insert_batch ==
    /\ pc = "loop"
    /\ idx < Len(chunks)
    /\ LET cdf == [cols |-> df.cols, rows |-> chunks[idx + 1]]
           r == to_sql(table, cdf, job.action)
       IN  /\ calls' = calls + 1
           /\ IF r.err = NoErr
              THEN /\ table' = r.table
                   /\ pbar' = [pbar EXCEPT !.n = @ + chunksize]
                   /\ idx' = idx + 1
                   /\ UNCHANGED <<pc, err>>
              ELSE /\ Raise(r.err)
                   /\ UNCHANGED <<table, pbar, idx>>
    /\ UNCHANGED <<job, df, engine, chunksize, chunks, result>>

\* The same iteration over a connection that breaks: to_sql raises.
insert_batch_connection_lost ==
    /\ pc = "loop"
    /\ idx < Len(chunks)
    /\ calls' = calls + 1
    /\ Raise(ConnectionLost)
    /\ UNCHANGED <<job, df, engine, chunksize, chunks, idx, pbar, table, result>>

\* The generator is exhausted: insert_data returns None.
insert_data_return ==
    /\ pc = "loop"
    /\ idx = Len(chunks)
    /\ IF job.entry = "insert_data"
       THEN pc' = "done" /\ result' = "None"
       ELSE pc' = "return" /\ UNCHANGED result
    /\ UNCHANGED <<job, df, engine, chunksize, chunks, idx, pbar, table, calls, err>>

\* csv_to_mssql line 117 / excel_to_mssql line 211: return True
return_true ==
    /\ pc = "return"
    /\ result' = "True"
    /\ pc' = "done"
    /\ UNCHANGED <<job, df, engine, chunksize, chunks, idx, pbar, table, calls, err>>

Next ==
    \/ read_csv
    \/ read_excel
    \/ create_engine
    \/ sizing
    \/ insert_data
    \/ insert_batch
    \/ insert_batch_connection_lost
    \/ insert_data_return
    \/ return_true

Spec == Init /\ [][Next]_vars

\* ------------------------------------------------------------- claims
Terminal == pc \in {"done", "error"}

ReaderErrors == {FileNotFound, UsecolsError}

\* insert_data was entered: chunksize holds the integer it was called with.
Entered ==
    \/ pc \in {"loop", "return", "done"}
    \/ pc = "error" /\ err \notin ReaderErrors

\* chunker returned its generator: chunks holds the batches.
Chunked ==
    \/ pc \in {"loop", "return", "done"}
    \/ pc = "error" /\ calls > 0

NRows == Len(df.rows)

CeilDiv(n, s) == (n + s - 1) \div s

RECURSIVE SumLen(_)
SumLen(ss) == IF ss = <<>> THEN 0 ELSE Len(Head(ss)) + SumLen(Tail(ss))

\* The last n rows of the table.
LastRows(t, n) == SubSeq(t.rows, Len(t.rows) - n + 1, Len(t.rows))

\* C1: whatever the policy, when a job of two or more batches completes, all
\* N input rows are in the destination table (batches after the first were
\* appended to what the earlier batches wrote).
C1_AllRowsWritten ==
    (pc = "done" /\ Len(chunks) >= 2)
        => /\ Len(table.rows) >= NRows
           /\ LastRows(table, NRows) = Aligned(df, table.cols)

\* C2: after insert_data with action "replace" and 1 <= S <= N completes, the
\* destination table is exactly the input table: same columns, same rows in
\* the same order, none of the prior rows.
C2_ReplaceRoundTrip ==
    (pc = "done" /\ job.action = "replace" /\ NRows >= 1
        /\ chunksize >= 1 /\ chunksize <= NRows)
        => table = [exists |-> TRUE, cols |-> df.cols, rows |-> df.rows]

\* C3: for N >= 1 and 1 <= S <= N chunker yields ceil(N/S) batches whose sizes
\* sum to N; batch k is rows [k*S, min((k+1)*S, N)) in order; only the last
\* batch may be smaller than S.
C3_ChunkerPartition ==
    (Chunked /\ NRows >= 1 /\ chunksize >= 1 /\ chunksize <= NRows)
        => /\ Len(chunks) = CeilDiv(NRows, chunksize)
           /\ SumLen(chunks) = NRows
           /\ \A k \in 1..Len(chunks) :
                LET lo == (k - 1) * chunksize
                    hi == Min(k * chunksize, NRows)
                IN  /\ chunks[k] = [i \in 1..(hi - lo) |-> df.rows[lo + i]]
                    /\ Len(chunks[k]) >= 1
                    /\ (k < Len(chunks) => Len(chunks[k]) = chunksize)

C3_Witness ==
    /\ pc = "loop"
    /\ chunksize >= 1
    /\ Len(chunks) >= 2
    /\ NRows % chunksize # 0
    /\ Len(chunks[Len(chunks)]) < chunksize

\* C4: for every S <= 0 chunker fails with the invalid-batch-size error and
\* yields no batch; it never returns normally.
C4_NonPositiveSizeRejected ==
    (Entered /\ pc # "insert_data" /\ chunksize <= 0)
        => (pc = "error" /\ err = ChunkSizeError /\ chunks = <<>>)

\* C5: when the source table has no rows, the orchestration performs no batch
\* write, raises no error and returns true.
C5_EmptyInputSucceeds ==
    (job.entry = "to_mssql" /\ Terminal /\ err \notin ReaderErrors /\ NRows = 0)
        => (pc = "done" /\ result = "True" /\ err = NoErr /\ calls = 0)

\* C6: for N >= 1 and 1 <= S <= N the progress updates of a completed job sum
\* to N and never exceed the declared total len(df).
C6_ProgressSumsToRows ==
    (pc = "done" /\ NRows >= 1 /\ chunksize >= 1 /\ chunksize <= NRows)
        => (pbar.n = NRows /\ pbar.n <= pbar.total)

\* C7: with policy "fail" and a destination table that exists before the job,
\* the first batch raises the table-exists error (unless the connection broke
\* first) and nothing is written: the table is unchanged, no later batch is
\* attempted and no progress update is emitted.
C7_FailPolicyNoWrites ==
    (job.action = "fail" /\ job.table0.exists)
        => /\ table = job.table0
           /\ pbar.n = 0
           /\ idx = 0
           /\ calls <= 1
           /\ (calls = 1 => pc = "error" /\ err \in {TableExistsError, ConnectionLost})
           /\ (pc = "error" /\ calls = 1 /\ err # ConnectionLost
                 => err = TableExistsError)
           /\ (Len(chunks) >= 1 => pc # "done" /\ pc # "return")

C7_Witness ==
    /\ job.action = "fail"
    /\ job.table0.exists
    /\ Len(job.table0.rows) >= 1
    /\ Len(chunks) >= 2
    /\ pc = "error"
    /\ err = TableExistsError
    /\ calls = 1

\* C8: in every terminal state of the orchestration (success, failed batch
\* write, reader failure) no engine handle made by the job remains open.
C8_NoLeakedEngine ==
    (job.entry = "to_mssql" /\ Terminal) => engine # "open"

\* C9: the orchestration returns true only if every batch was written without
\* error; when the write of a batch fails the error leaves the job, no later
\* batch is written and true is not returned.
C9_TrueOnlyOnFullSuccess ==
    job.entry = "to_mssql"
        => /\ (result = "True"
                 => err = NoErr /\ idx = Len(chunks) /\ calls = Len(chunks))
           /\ (err # NoErr
                 => /\ pc = "error"
                    /\ result = "none"
                    /\ ~ENABLED Next
                    /\ (calls > 0 => calls = idx + 1))

C9_Witness ==
    /\ job.entry = "to_mssql"
    /\ pc = "error"
    /\ idx >= 1
    /\ idx + 1 < Len(chunks)
    /\ Len(table.rows) > 0
    /\ result = "none"

\* C10: when a requested column is absent from the (readable) source, the
\* orchestration fails with the column error in the reader: no engine handle
\* is ever created and no batch is written.
C10_ReaderErrorBeforeEngine ==
    (job.entry = "to_mssql" /\ job.file_exists /\ ~usecols_ok(job.columns))
        => /\ pc \in {"read", "error"}
           /\ (pc = "error" => err = UsecolsError)
           /\ engine = "none"
           /\ calls = 0
           /\ table = job.table0

C10_Witness ==
    /\ job.entry = "to_mssql"
    /\ ~usecols_ok(job.columns)
    /\ pc = "error"
    /\ err = UsecolsError
    /\ engine = "none"

====
